---------------------------- MODULE Spec2Model ----------------------------
(***************************************************************************)
(* CASPaxos register of durable-utils: the Proposer (change, guessValue,   *)
(* commitValue, waitFor), the storage-backed Acceptor (prepare, accept),   *)
(* and the CASPaxosKV facade that drives the Proposer through tryWhile.    *)
(*                                                                         *)
(* Encodings.  A string whose order matters (a proposer id) is a sequence  *)
(* of one-character strings compared by code unit.  A storage key is a     *)
(* TLA+ string.  A JavaScript value is an integer: NullV for null, UndefV  *)
(* for undefined, a natural number for a number.  Every value carries a    *)
(* history field g, the number of accept rounds on the chain that produced *)
(* it (0 for a value no change produced); the code never reads g.          *)
(***************************************************************************)
EXTENDS Integers, Sequences, FiniteSets, TLC

\* ------------------------------------------------------------------ bounds

\* Largest counter a new ballot may take (a change that would pass it is not started).
MaxCounter == 6

\* Number of change calls the clients of the protocol specification start.
MaxChanges == 2

\* Number of facade operations the clients of the facade specification start.
MaxOps == 2

\* Number of requests that may remain in flight after their quorum wait settled.
MaxStray == 1

\* Number of change calls the clients keep in flight at a time.
MaxInFlight == 1

\* Number of replicas that become unreachable in the facade specification.
MaxDown == 2

\* ------------------------------------------------------------- environment

Nodes == {1, 2, 3}

TotalNodes == Cardinality(Nodes)

Quorum == (TotalNodes \div 2) + 1

\* Proposer ids (the facade draws one with crypto.randomUUID()).
ProposerA == <<"a">>

ProposerB == <<"b">>

AllProposers == {ProposerA, ProposerB}

KeyK == "k"

\* A key that is itself the storage key the acceptor derives for KeyK.
KeyLK == "localstate:k"

AllKeys == {KeyK, KeyLK}

NullV == -1

UndefV == -2

\* ------------------------------------------------------------ BallotNumber

Digits == <<"0", "1", "2", "3", "4", "5", "6", "7", "8", "9">>

IsDigit(c) == \E d \in 1..10 : Digits[d] = c

\* The value of a decimal digit character.
DigitValue(c) == (CHOOSE d \in 1..10 : Digits[d] = c) - 1

CharCode(c) ==
    CASE c = "," -> 44
      [] IsDigit(c) -> 48 + DigitValue(c)
      [] c = "a" -> 97
      [] c = "b" -> 98

RECURSIVE StrLess(_, _)
\* JavaScript's s < t on strings: lexicographic by code unit, a proper prefix first.
StrLess(s, t) ==
    IF t = <<>> THEN FALSE
    ELSE IF s = <<>> THEN TRUE
    ELSE IF CharCode(Head(s)) # CharCode(Head(t))
         THEN CharCode(Head(s)) < CharCode(Head(t))
         ELSE StrLess(Tail(s), Tail(t))

BallotZero == [counter |-> 0, id |-> <<>>]

BallotFromId(id) == [counter |-> 0, id |-> id]

BallotNext(bn) == [counter |-> bn.counter + 1, id |-> bn.id]

\* The counter after fastforwardAfter(bn, tick); the id is kept.
FastforwardAfter(counter, tick) ==
    (IF counter > tick.counter THEN counter ELSE tick.counter) + 1

CompareToCounterOnly(bn, tick) ==
    IF bn.counter < tick.counter THEN -1
    ELSE IF bn.counter > tick.counter THEN 1
    ELSE 0

CompareTo(bn, tick) ==
    IF bn.counter < tick.counter THEN -1
    ELSE IF bn.counter > tick.counter THEN 1
    ELSE IF StrLess(bn.id, tick.id) THEN -1
    ELSE IF StrLess(tick.id, bn.id) THEN 1
    ELSE 0

RECURSIVE FastforwardAll(_, _)
RECURSIVE HighestConflict(_, _)
\* The loop "for (const x of all.filter(isConflict)) fastforwardAfter(ballot, x.ballot)".
FastforwardAll(counter, resps) ==
    IF resps = <<>> THEN counter
    ELSE FastforwardAll(
            IF Head(resps).isConflict
            THEN FastforwardAfter(counter, Head(resps).ballot)
            ELSE counter,
            Tail(resps))

\* ---------------------------------------------------------------- Acceptor

Val(v, g) == [v |-> v, g |-> g]

NullVal == Val(NullV, 0)

UndefVal == Val(UndefV, 0)

\* What txn.put stores: {promisedBallot, acceptedBallot, value}.
NoRecord == [present |-> FALSE, promisedBallot |-> BallotZero,
             acceptedBallot |-> BallotZero, value |-> NullVal]

StoredRecord(promised, accepted, value) ==
    [present |-> TRUE, promisedBallot |-> promised,
     acceptedBallot |-> accepted, value |-> value]

\* The key prepare and accept read: `localstate:${key}`.
LocalStateKey(key) == "localstate:" \o key

\* The key prepare and accept write: txn.put(key, ...).
PutKey(key) == key

StorageKeys == AllKeys \cup {LocalStateKey(k) : k \in AllKeys}

\* txn.get<KeyLocalState>(`localstate:${key}`) || zero state.  A stored record has
\* the fields promisedBallot, acceptedBallot and value, so its acceptedValue reads
\* as undefined.
LoadLocalState(store, key) ==
    LET r == store[LocalStateKey(key)]
    IN  IF r.present
        THEN [promisedBallot |-> r.promisedBallot,
              acceptedBallot |-> r.acceptedBallot,
              acceptedValue |-> UndefVal]
        ELSE [promisedBallot |-> BallotZero,
              acceptedBallot |-> BallotZero,
              acceptedValue |-> NullVal]

Resp(ok, conflict, ballot, value) ==
    [isOk |-> ok, isConflict |-> conflict, ballot |-> ballot, value |-> value]

\* AcceptorClient.prepare: the response and the store after the transaction.
\* isOk stands for isPrepared.
AcceptorPrepare(store, key, proposedBallot) ==
    LET localState == LoadLocalState(store, key)
    IN  IF CompareTo(proposedBallot, localState.promisedBallot) <= 0
        THEN [resp |-> Resp(FALSE, TRUE, localState.promisedBallot, NullVal),
              store |-> store]
        ELSE IF CompareTo(proposedBallot, localState.acceptedBallot) <= 0
        THEN [resp |-> Resp(FALSE, TRUE, localState.acceptedBallot, NullVal),
              store |-> store]
        ELSE [resp |-> Resp(TRUE, FALSE, localState.acceptedBallot,
                            localState.acceptedValue),
              store |-> [store EXCEPT ![PutKey(key)] =
                            StoredRecord(proposedBallot, localState.acceptedBallot,
                                         localState.acceptedValue)]]

AcceptorAcceptErasing(store, key, preparedBallot, preparedValue, nextBallot) ==
    LET localState == LoadLocalState(store, key)
    IN  IF CompareTo(preparedBallot, localState.promisedBallot) < 0
        THEN [resp |-> Resp(FALSE, TRUE, localState.promisedBallot, NullVal),
              store |-> store]
        ELSE IF CompareTo(preparedBallot, localState.acceptedBallot) <= 0
        THEN [resp |-> Resp(FALSE, TRUE, localState.acceptedBallot, NullVal),
              store |-> store]
        ELSE [resp |-> Resp(TRUE, FALSE, localState.acceptedBallot, NullVal),
              store |-> [store EXCEPT ![PutKey(key)] =
                            StoredRecord(BallotZero, preparedBallot, preparedValue)]]

\* AcceptorClient.accept: the response and the store after the transaction.
AcceptorAccept(store, key, preparedBallot, preparedValue, nextBallot) ==
    LET localState == LoadLocalState(store, key)
    IN  IF CompareTo(preparedBallot, localState.promisedBallot) < 0
        THEN [resp |-> Resp(FALSE, TRUE, localState.promisedBallot, NullVal),
              store |-> store]
        ELSE IF CompareTo(preparedBallot, localState.acceptedBallot) <= 0
        THEN [resp |-> Resp(FALSE, TRUE, localState.acceptedBallot, NullVal),
              store |-> store]
        ELSE [resp |-> Resp(TRUE, FALSE, localState.acceptedBallot, NullVal),
              store |-> [store EXCEPT ![PutKey(key)] =
                            StoredRecord(nextBallot, preparedBallot, preparedValue)]]

\* A request on the wire and the acceptor call it makes.
Req(kind, key, ballot, value, promise) ==
    [kind |-> kind, key |-> key, ballot |-> ballot, value |-> value,
     promise |-> promise]

NoReq == Req("none", KeyK, BallotZero, NullVal, BallotZero)

Handle(store, req) ==
    IF req.kind = "prepare"
    THEN AcceptorPrepare(store, req.key, req.ballot)
    ELSE AcceptorAccept(store, req.key, req.ballot, req.value, req.promise)


\* ----------------------------------------------------------------- waitFor

WaitForStepEager(result, all, failed, thrown, resp, total, wantedCount) ==
    LET all1 == IF thrown THEN all ELSE Append(all, resp)
        error == thrown \/ ~resp.isOk
        failed1 == IF error THEN failed + 1 ELSE failed
        result1 == IF error THEN result ELSE Append(result, resp)
    IN  [result |-> result1, all |-> all1, failed |-> failed1,
         settled |-> IF error
                     THEN "reject"
                     ELSE IF Len(result1) = wantedCount THEN "resolve" ELSE "pending"]

\* A wait that wants one success more than asked for.
WaitForStepOneMore(result, all, failed, thrown, resp, total, wantedCount) ==
    LET all1 == IF thrown THEN all ELSE Append(all, resp)
        error == thrown \/ ~resp.isOk
        failed1 == IF error THEN failed + 1 ELSE failed
        result1 == IF error THEN result ELSE Append(result, resp)
    IN  [result |-> result1, all |-> all1, failed |-> failed1,
         settled |-> IF error
                     THEN IF total - failed1 < wantedCount THEN "reject" ELSE "pending"
                     ELSE IF Len(result1) = wantedCount + 1 THEN "resolve"
                     ELSE "pending"]

\* A wait that resolves only once every promise has settled.
WaitForStepAll(result, all, failed, thrown, resp, total, wantedCount) ==
    LET all1 == IF thrown THEN all ELSE Append(all, resp)
        error == thrown \/ ~resp.isOk
        failed1 == IF error THEN failed + 1 ELSE failed
        result1 == IF error THEN result ELSE Append(result, resp)
    IN  [result |-> result1, all |-> all1, failed |-> failed1,
         settled |-> IF total - failed1 < wantedCount THEN "reject"
                     ELSE IF Len(result1) + failed1 = total THEN "resolve"
                     ELSE "pending"]

\* The bookkeeping of one waitFor call after one more promise settled:
\* `thrown` when the promise rejected, else `resp` is its value.  cond is isOk.
WaitForStep(result, all, failed, thrown, resp, total, wantedCount) ==
    LET all1 == IF thrown THEN all ELSE Append(all, resp)
        error == thrown \/ ~resp.isOk
        failed1 == IF error THEN failed + 1 ELSE failed
        result1 == IF error THEN result ELSE Append(result, resp)
    IN  [result |-> result1, all |-> all1, failed |-> failed1,
         settled |-> IF error
                     THEN IF total - failed1 < wantedCount THEN "reject" ELSE "pending"
                     ELSE IF Len(result1) = wantedCount THEN "resolve" ELSE "pending"]

RECURSIVE MaxFrom(_, _)
\* iterable.reduce((acc, e) => compareTo(acc.ballot, e.ballot) < 0 ? e : acc, acc)
MaxFrom(acc, rest) ==
    IF rest = <<>> THEN acc
    ELSE MaxFrom(IF CompareTo(acc.ballot, Head(rest).ballot) < 0 THEN Head(rest) ELSE acc,
                 Tail(rest))

\* A selection that takes the first prepared response, whatever its ballot.
MaxPreparedFirst(ok) == Head(ok)

\* max(ok, x => x.ballot) of a non-empty list.
MaxPrepared(ok) == MaxFrom(Head(ok), ok)

\* The highest of `b` and the ballots of the conflicts among `resps`: the
\* conflicts the loops of guessValue and commitValue run over.
HighestConflict(b, resps) ==
    IF resps = <<>> THEN b
    ELSE HighestConflict(
            IF Head(resps).isConflict /\ CompareTo(b, Head(resps).ballot) < 0
            THEN Head(resps).ballot ELSE b,
            Tail(resps))

AnyConflict(resps) == \E i \in 1..Len(resps) : resps[i].isConflict

\* ----------------------------------------------------------------- updates

\* The caller's transform.  "get", "set" and "cas" are the facade's lambdas; "inc"
\* is v => (v ?? 100) + 1; "throw" is a transform that raises.
Fn(op, a, b) == [op |-> op, a |-> a, b |-> b]

NoFn == Fn("none", 0, 0)

FnGet == Fn("get", 0, 0)

FnSet(v) == Fn("set", v, 0)

FnCas(expected, newValue) == Fn("cas", expected, newValue)

FnInc == Fn("inc", 0, 0)

FnThrow == Fn("throw", 0, 0)

ApplyUpdateLosing(fn, curr) ==
    CASE fn.op = "get" -> [threw |-> FALSE, v |-> curr]
      [] fn.op = "set" -> [threw |-> FALSE, v |-> fn.a]
      [] fn.op = "cas" -> [threw |-> FALSE, v |-> IF curr = fn.a THEN fn.b ELSE curr]
      [] fn.op = "inc" -> [threw |-> FALSE,
                           v |-> (IF curr \in {NullV, UndefV} THEN 100 ELSE curr) + 1]
      [] OTHER -> [threw |-> TRUE, v |-> 0]

\* change's "next = curr; try { next = update(curr) } catch": whether update threw,
\* and the value of next afterwards.
ApplyUpdate(fn, curr) ==
    CASE fn.op = "get" -> [threw |-> FALSE, v |-> curr]
      [] fn.op = "set" -> [threw |-> FALSE, v |-> fn.a]
      [] fn.op = "cas" -> [threw |-> FALSE, v |-> IF curr = fn.a THEN fn.b ELSE curr]
      [] fn.op = "inc" -> [threw |-> FALSE,
                           v |-> (IF curr \in {NullV, UndefV} THEN 100 ELSE curr) + 1]
      [] OTHER -> [threw |-> TRUE, v |-> curr]

IsRetryableAlways(code) == TRUE

\* ProposerError.isRetryable
IsRetryable(code) ==
    code = "ConcurrentRequestError" \/ code = "PrepareError" \/ code = "CommitError"

\* The facade's retry predicate (e, nextAttempt) of tryWhile; MaxAttempt is its 3.
MaxAttempt == 3

FacadeIsRetryableUnbounded(code, nextAttempt) == IsRetryable(code)

FacadeIsRetryable(code, nextAttempt) ==
    IF nextAttempt > MaxAttempt THEN FALSE ELSE IsRetryable(code)

\* ------------------------------------------------------------------- state

VARIABLES
    storage,    \* [node -> [storage key -> record]]: each replica's durable storage
    ballot,     \* [proposer -> counter]: Proposer.ballot (its id is the proposer's)
    cache,      \* [proposer -> [key -> entry]]: Proposer.cache
    locks,      \* [proposer -> set of keys]: Proposer.locks
    call,       \* [proposer -> [key -> the change call in flight for the key]]
    msgs,       \* [proposer -> [key -> [node -> the call's promise for that node]]]
    stray,      \* requests still on the wire after their waitFor settled
    ops,        \* [1..MaxOps -> facade operation (a tryWhile loop)]
    down,       \* the unreachable replicas
    rev,        \* "utils": inc returns the proposer's ballot object itself;
                \* "class": inc returns a copy
    ev,         \* what the last step did (history)
    issued,     \* [proposer -> ballots under which it started a round] (history)
    seen,       \* [proposer -> highest conflict ballot its code was handed] (history)
    committed,  \* [key -> highest g a change on the key returned] (history)
    nChanges    \* number of change calls started by the protocol's clients

\* The state of the components examined on their own.
VARIABLES
    topology,   \* [location -> weight]: options.topology.locations
    kv,         \* the outcome of `new CASPaxosKV(ns, options)`
    bnA,        \* a ballot number under examination
    bnB,        \* a second one
    bnC,        \* a third one
    cmp,        \* the results of compareTo among them, once taken
    txt,        \* stringify(bnA), once taken
    parsed,     \* parse(txt), once taken
    tn,         \* a call of tryN: its arguments, its position and what fn did
    granted,    \* [key -> what one replica's granted requests established] (history)
    lastCall,   \* the last request made to that replica directly, and its response
    nReqs,      \* number of requests made to that replica directly
    wf          \* a call of waitFor: its arguments, its closure and its promise

protoVars == <<storage, ballot, cache, locks, call, msgs, stray, ops, down, rev, ev,
               issued, seen, committed, nChanges>>

ctorVars == <<topology, kv>>

ballotVars == <<bnA, bnB, bnC, cmp, txt, parsed>>

retryVars == <<tn>>

replicaVars == <<granted, lastCall, nReqs>>

waitVars == <<wf>>

sideVars == <<ctorVars, ballotVars, retryVars, replicaVars, waitVars>>

vars == <<protoVars, sideVars>>

\* DurableObjectLocationHint values, in localeCompare order.
Locations == <<"eeur", "weur", "wnam">>

NoTopology == [l \in 1..Len(Locations) |-> 0]

\* No facade constructed yet.
NoKV == [st |-> "none", totalNodes |-> 0, quorum |-> 0, nodes |-> <<>>, message |-> ""]

\* No text taken yet, no ballot parsed yet.
NoText == <<"none">>

NoBallot == [counter |-> -1, id |-> <<"none">>]

\* No comparison made yet.
NoCmp == [ab |-> 2, ba |-> 2, bc |-> 2, ac |-> 2, aa |-> 2]

\* tryN not called.
NoTryN ==
    [st |-> "none", impl |-> "", n2 |-> 0, attempt |-> 0, calls |-> <<>>,
     outcomes |-> <<>>, err |-> "", res |-> ""]

CtorIdle == topology = NoTopology /\ kv = NoKV

BallotIdle ==
    /\ bnA = BallotZero
    /\ bnB = BallotZero
    /\ bnC = BallotZero
    /\ cmp = NoCmp
    /\ txt = NoText
    /\ parsed = NoBallot

RetryIdle == tn = NoTryN

\* The zero state of a key: nothing promised, nothing accepted.
ZeroState ==
    [promisedBallot |-> BallotZero, acceptedBallot |-> BallotZero,
     acceptedValue |-> NullVal]

NoCall ==
    [req |-> NoReq, resp |-> Resp(FALSE, FALSE, BallotZero, NullVal),
     before |-> ZeroState]

ReplicaIdle ==
    /\ granted = [k \in AllKeys |-> ZeroState]
    /\ lastCall = NoCall
    /\ nReqs = 0

\* No call of waitFor: no promises, nothing settled.
NoWait ==
    [n |-> 0, q |-> 0, pending |-> {}, result |-> <<>>, all |-> <<>>, failed |-> 0,
     isResolved |-> FALSE, settled |-> "pending", hist |-> <<>>, at |-> 0]

WaitIdle == wf = NoWait

SideIdle == CtorIdle /\ BallotIdle /\ RetryIdle /\ ReplicaIdle /\ WaitIdle

\* `stale` is history: another proposer's change on the key has returned since
\* the entry was set.  `at` is history: the ballot as it was when the entry was
\* set.
NoEntry ==
    [has |-> FALSE, alias |-> FALSE, ballot |-> BallotZero, value |-> NullVal,
     stale |-> FALSE, at |-> BallotZero]

\* cache.set(key, [ballot, value]); `alias` when the stored ballot is the
\* proposer's own ballot object.
Entry(alias, b, value) ==
    [has |-> TRUE, alias |-> alias,
     ballot |-> IF alias THEN BallotZero ELSE b, value |-> value,
     stale |-> FALSE, at |-> b]

\* The ballot a cache entry holds, read now.
EntryBallot(p, e) ==
    IF e.alias THEN [counter |-> ballot[p], id |-> p] ELSE e.ballot

IdleCall ==
    [pc |-> "idle", fn |-> NoFn, op |-> 0, ballot |-> BallotZero, curr |-> NullVal,
     next |-> NullVal, promise |-> BallotZero, threw |-> FALSE, result |-> <<>>,
     all |-> <<>>, failed |-> 0, floor |-> 0, stale |-> FALSE]

NoResp == Resp(FALSE, FALSE, BallotZero, NullVal)

NoMsg == [st |-> "none"]

ReqMsg == [st |-> "req"]

\* The request a call in flight has sent to every node.
CallReq(c, k) ==
    IF c.pc = "prepare"
    THEN Req("prepare", k, c.ballot, NullVal, BallotZero)
    ELSE Req("accept", k, c.ballot, c.next, c.promise)

NoEv ==
    [type |-> "none", p |-> <<>>, k |-> KeyK, code |-> "", val |-> NullV,
     phase |-> "", nOk |-> 0, g |-> 0, floor |-> 0, ballot |-> BallotZero,
     prepared |-> BallotZero, reused |-> FALSE, sent |-> FALSE, busy |-> FALSE,
     stale |-> FALSE, oks |-> <<>>, all |-> <<>>, threw |-> FALSE]

NewOp ==
    [st |-> "new", p |-> ProposerA, k |-> KeyK, kind |-> "", fn |-> NoFn, attempt |-> 1,
     err |-> "", res |-> NullV, nDown |-> 0, sawConflict |-> FALSE]

InitWith(revision, unreachable) ==
    /\ storage = [n \in Nodes |-> [sk \in StorageKeys |-> NoRecord]]
    /\ ballot = [p \in AllProposers |-> 0]
    /\ cache = [p \in AllProposers |-> [k \in AllKeys |-> NoEntry]]
    /\ locks = [p \in AllProposers |-> {}]
    /\ call = [p \in AllProposers |-> [k \in AllKeys |-> IdleCall]]
    /\ msgs = [p \in AllProposers |-> [k \in AllKeys |-> [n \in Nodes |-> NoMsg]]]
    /\ stray = {}
    /\ ops = [o \in 1..MaxOps |-> NewOp]
    /\ down \in unreachable
    /\ rev = revision
    /\ ev = NoEv
    /\ issued = [p \in AllProposers |-> {}]
    /\ seen = [p \in AllProposers |-> BallotZero]
    /\ committed = [k \in AllKeys |-> 0]
    /\ nChanges = 0

\* ---------------------------------------------------------------- Proposer

TryLockAlways(held, key) == TRUE

\* Proposer.tryLock: whether the key's lock is free (it is then taken).
TryLock(held, key) == key \notin held

\* An unlock that leaves the key locked.
UnlockNothing(held, key) == held

\* Proposer.unlock
Unlock(held, key) == held \ {key}

AllReq == [n \in Nodes |-> ReqMsg]

AllNone == [n \in Nodes |-> NoMsg]

Outcome(type, code, val) == [type |-> type, code |-> code, val |-> val]

NoOutcome == Outcome("none", "", NullVal)

PrepareErrorCode == "PrepareError"

CommitErrorEscaping == "InsufficientQuorumError"

CommitErrorCode == "CommitError"

\* What a settled waitFor leaves of the proposer and of the call for (p, k):
\* the local counter, the key's cache entry, the call, whether change's finally
\* released the lock, how change ended, whether an accept round was sent.
After(counter, entry, c, unlock, out, sends) ==
    [counter |-> counter, entry |-> entry, call |-> c, unlock |-> unlock,
     out |-> out, sends |-> sends]

\* An accept round that reserves no next ballot: the promise is `b` itself.
CommitRoundNoReserve(c, b, curr) ==
    LET u == ApplyUpdate(c.fn, curr.v)
    IN  [c EXCEPT !.pc = "accept", !.ballot = b, !.curr = curr,
                  !.next = Val(u.v, curr.g + 1), !.promise = b,
                  !.threw = u.threw, !.result = <<>>, !.all = <<>>, !.failed = 0]

\* change after update(curr) ran on the guessed value: the accept round it sends
\* under `b` with the promise b.next().
CommitRound(c, b, curr) ==
    LET u == ApplyUpdate(c.fn, curr.v)
    IN  [c EXCEPT !.pc = "accept", !.ballot = b, !.curr = curr,
                  !.next = Val(u.v, curr.g + 1), !.promise = BallotNext(b),
                  !.threw = u.threw, !.result = <<>>, !.all = <<>>, !.failed = 0]

\* guessValue when the prepare round reached its quorum, then change up to the
\* accept round.
GuessValueOk(p, k, c, w) ==
    LET value == MaxPrepared(w.result).value
        tick == IF rev = "utils" THEN [counter |-> ballot[p], id |-> p] ELSE c.ballot
    IN  After(ballot[p], Entry(rev = "utils", c.ballot, value),
              CommitRound(c, tick, value), FALSE, NoOutcome, TRUE)

\* A failed prepare round that leaves the local counter where it was.
GuessValueFailNoFastforward(p, k, c, w) ==
    After(ballot[p], cache[p][k], IdleCall, TRUE,
          Outcome("throw", PrepareErrorCode, NullVal), FALSE)

\* guessValue when waitFor threw InsufficientQuorumError.
GuessValueFail(p, k, c, w) ==
    After(FastforwardAll(ballot[p], w.all), cache[p][k], IdleCall, TRUE,
          Outcome("throw", PrepareErrorCode, NullVal), FALSE)

CommitOkStale(p, k, c, w) ==
    After(FastforwardAll(ballot[p], w.all), Entry(FALSE, c.promise, c.curr),
          IdleCall, TRUE,
          IF c.threw THEN Outcome("throw", "UpdateError", NullVal)
          ELSE Outcome("return", "", c.next),
          FALSE)

\* commitValue when the accept round reached its quorum, then the rest of change.
CommitOk(p, k, c, w) ==
    After(FastforwardAll(ballot[p], w.all), Entry(FALSE, c.promise, c.next),
          IdleCall, TRUE,
          IF c.threw THEN Outcome("throw", "UpdateError", NullVal)
          ELSE Outcome("return", "", c.next),
          FALSE)

\* A failed accept round after which the transform's error wins.
CommitFailUpdateFirst(p, k, c, w) ==
    After(FastforwardAll(ballot[p], w.all),
          IF AnyConflict(w.all) THEN NoEntry ELSE cache[p][k],
          IdleCall, TRUE,
          Outcome("throw", IF c.threw THEN "UpdateError" ELSE CommitErrorCode, NullVal),
          FALSE)

\* commitValue when waitFor threw InsufficientQuorumError.
CommitFail(p, k, c, w) ==
    After(FastforwardAll(ballot[p], w.all),
          IF AnyConflict(w.all) THEN NoEntry ELSE cache[p][k],
          IdleCall, TRUE, Outcome("throw", CommitErrorCode, NullVal), FALSE)

Settled(p, k, c, w) ==
    CASE c.pc = "prepare" /\ w.settled = "resolve" -> GuessValueOk(p, k, c, w)
      [] c.pc = "prepare" /\ w.settled = "reject" -> GuessValueFail(p, k, c, w)
      [] c.pc = "accept" /\ w.settled = "resolve" -> CommitOk(p, k, c, w)
      [] c.pc = "accept" /\ w.settled = "reject" -> CommitFail(p, k, c, w)
      [] OTHER -> After(ballot[p], cache[p][k],
                        [c EXCEPT !.result = w.result, !.all = w.all,
                                  !.failed = w.failed],
                        FALSE, NoOutcome, FALSE)

\* ------------------------------------------------------------------ facade

\* tryWhile after fn(attempt) threw `code`: attempt += 1, then isRetryable.
OpThrew(op, code) ==
    LET a == op.attempt + 1
    IN  [op EXCEPT !.attempt = a, !.err = code,
                   !.st = IF FacadeIsRetryable(code, a) THEN "backoff" ELSE "failed"]

\* tryWhile after fn(attempt) returned.
OpReturned(op, v) ==
    [op EXCEPT !.st = "done", !.res = v]

OpsAfter(o, out, conflict) ==
    IF o = 0 THEN ops
    ELSE [ops EXCEPT ![o] =
            LET op == [@ EXCEPT !.sawConflict = @ \/ conflict]
            IN  CASE out.type = "throw" -> OpThrew(op, out.code)
                  [] out.type = "return" -> OpReturned(op, out.val.v)
                  [] OTHER -> op]

\* ----------------------------------------------------------------- actions

StartEv(p, k, phase, b) ==
    [NoEv EXCEPT !.type = "start", !.p = p, !.k = k, !.phase = phase,
                 !.ballot = b, !.prepared = b, !.reused = b \in issued[p],
                 !.sent = TRUE,
                 !.busy = call[p][k].pc # "idle"]

\* proposer.change(key, update) up to its first await, called by facade
\* operation o (0: called directly).  Sets ballot, cache, locks, call, msgs, ev
\* and issued.
Invoke(p, k, fn, o) ==
    IF ~TryLock(locks[p], k)
    THEN /\ ev' = [NoEv EXCEPT !.type = "reject", !.p = p, !.k = k,
                               !.code = "ConcurrentRequestError",
                               !.busy = call[p][k].pc # "idle"]
         /\ UNCHANGED <<ballot, cache, locks, call, msgs, issued>>
    ELSE IF ~cache[p][k].has
    THEN LET tick == [counter |-> ballot[p] + 1, id |-> p]
         IN  /\ tick.counter <= MaxCounter
             /\ ballot' = [ballot EXCEPT ![p] = tick.counter]
             /\ locks' = [locks EXCEPT ![p] = @ \cup {k}]
             /\ call' = [call EXCEPT ![p][k] =
                            [IdleCall EXCEPT !.pc = "prepare", !.fn = fn, !.op = o,
                                             !.ballot = tick,
                                             !.floor = committed[k]]]
             /\ msgs' = [msgs EXCEPT ![p][k] = AllReq]
             /\ issued' = [issued EXCEPT ![p] = @ \cup {tick}]
             /\ ev' = StartEv(p, k, "prepare", tick)
             /\ UNCHANGED cache
    ELSE LET e == cache[p][k]
             b == EntryBallot(p, e)
         IN  /\ b.counter <= MaxCounter
             /\ locks' = [locks EXCEPT ![p] = @ \cup {k}]
             /\ call' = [call EXCEPT ![p][k] =
                            CommitRound([IdleCall EXCEPT !.fn = fn, !.op = o,
                                                         !.floor = committed[k],
                                                         !.stale = e.stale],
                                        b, e.value)]
             /\ msgs' = [msgs EXCEPT ![p][k] = AllReq]
             /\ issued' = [issued EXCEPT ![p] = @ \cup {b}]
             /\ ev' = StartEv(p, k, "accept", b)
             /\ UNCHANGED <<ballot, cache>>

InFlight == {pk \in AllProposers \X AllKeys : call[pk[1]][pk[2]].pc # "idle"}

\* A client calls proposer.change directly.
Change(p, k, fn) ==
    /\ nChanges < MaxChanges
    /\ k \in locks[p] \/ Cardinality(InFlight) < MaxInFlight
    /\ Invoke(p, k, fn, 0)
    /\ nChanges' = IF ev'.type = "start" THEN nChanges + 1 ELSE nChanges
    /\ UNCHANGED sideVars
    /\ UNCHANGED <<storage, stray, ops, down, rev, seen, committed>>

\* Replica m.n runs a request whose waitFor has settled; nobody reads the response.
ProcessStray(m) ==
    /\ m \in stray
    /\ m.n \notin down
    /\ storage' = [storage EXCEPT ![m.n] = Handle(storage[m.n], m.req).store]
    /\ stray' = stray \ {m}
    /\ ev' = NoEv
    /\ UNCHANGED <<ballot, cache, locks, call, msgs, ops, down, rev, issued,
                   seen, committed, nChanges, sideVars>>

\* A request whose waitFor has settled never reaches its replica.
LoseStray(m) ==
    /\ m \in stray
    /\ stray' = stray \ {m}
    /\ ev' = NoEv
    /\ UNCHANGED <<storage, ballot, cache, locks, call, msgs, ops, down, rev,
                   issued, seen, committed, nChanges, sideVars>>

\* The promise of the call for (p, k) to replica n settles, rejected (`thrown`) or
\* with `resp`: one turn of waitFor's per-promise async function and, when it
\* settles the wait, the proposer's code up to the next await or to the end of
\* change.  Sets everything but storage.
Settle(p, k, n, thrown, resp) ==
    LET c == call[p][k]
        w == WaitForStep(c.result, c.all, c.failed, thrown, resp, TotalNodes, Quorum)
        s == Settled(p, k, c, w)
        left == {n2 \in Nodes \ {n} : msgs[p][k][n2].st = "req" /\ n2 \notin down}
    IN  /\ ballot' = [ballot EXCEPT ![p] = s.counter]
        /\ cache' = [q \in AllProposers |->
                        IF q = p THEN [cache[p] EXCEPT ![k] = s.entry]
                        ELSE IF s.out.type = "return"
                        THEN [cache[q] EXCEPT ![k].stale = cache[q][k].has]
                        ELSE cache[q]]
        /\ call' = [call EXCEPT ![p][k] = s.call]
        /\ locks' = IF s.unlock THEN [locks EXCEPT ![p] = Unlock(@, k)] ELSE locks
        /\ msgs' = [msgs EXCEPT ![p][k] =
                       IF s.sends THEN AllReq
                       ELSE IF w.settled = "pending" THEN [@ EXCEPT ![n] = NoMsg]
                       ELSE AllNone]
        /\ stray' = IF w.settled = "pending" THEN stray
                    ELSE stray \cup {[n |-> n2, req |-> CallReq(c, k)] : n2 \in left}
        /\ Cardinality(stray') <= MaxStray
        /\ issued' = IF s.sends THEN [issued EXCEPT ![p] = @ \cup {s.call.ballot}]
                     ELSE issued
        /\ ev' = IF s.out.type = "none"
                 THEN IF s.sends
                      THEN [NoEv EXCEPT !.type = "proceed", !.p = p, !.k = k,
                                        !.phase = "accept", !.sent = TRUE,
                                        !.ballot = s.call.ballot,
                                        !.prepared = c.ballot,
                                        !.nOk = Len(w.result), !.oks = w.result]
                      ELSE NoEv
                 ELSE [NoEv EXCEPT !.type = s.out.type, !.p = p, !.k = k,
                                   !.code = s.out.code, !.val = s.out.val.v,
                                   !.phase = c.pc, !.nOk = Len(w.result),
                                   !.g = c.curr.g, !.floor = c.floor,
                                   !.ballot = c.ballot, !.stale = c.stale,
                                   !.all = w.all, !.threw = c.threw]
        /\ ops' = OpsAfter(c.op, s.out, ~thrown /\ resp.isConflict)
        /\ seen' = IF w.settled = "pending" \/ (c.pc = "prepare" /\ w.settled = "resolve")
                   THEN seen
                   ELSE [seen EXCEPT ![p] = HighestConflict(@, w.all)]
        /\ committed' = IF s.out.type = "return" /\ s.out.val.g > committed[k]
                        THEN [committed EXCEPT ![k] = s.out.val.g]
                        ELSE committed
        /\ UNCHANGED <<down, rev, nChanges, sideVars>>

\* Replica n runs the request of the call for (p, k) in one transaction and the
\* promise resolves with its response.
Rpc(p, k, n) ==
    /\ msgs[p][k][n].st = "req"
    /\ n \notin down
    /\ LET h == Handle(storage[n], CallReq(call[p][k], k))
       IN  /\ storage' = [storage EXCEPT ![n] = h.store]
           /\ Settle(p, k, n, FALSE, h.resp)

\* The call to replica n fails before the replica runs it: the promise rejects.
RpcLost(p, k, n) ==
    /\ msgs[p][k][n].st = "req"
    /\ Settle(p, k, n, TRUE, NoResp)
    /\ UNCHANGED storage

\* The call to an unreachable replica fails.
RpcDown(p, k, n) == n \in down /\ RpcLost(p, k, n)

\* ------------------------------------------------- protocol specification

SpecProposers == AllProposers

SpecKeys == {KeyK}

SpecFns == {FnGet, FnSet(1), FnThrow}

Init == InitWith("utils", {{}}) /\ SideIdle

Next ==
    \/ \E p \in SpecProposers, k \in SpecKeys, fn \in SpecFns : Change(p, k, fn)
    \/ \E p \in SpecProposers, k \in SpecKeys, n \in Nodes : Rpc(p, k, n)
    \/ \E p \in SpecProposers, k \in SpecKeys, n \in Nodes : RpcLost(p, k, n)
    \/ \E m \in stray : ProcessStray(m)
    \/ \E m \in stray : LoseStray(m)

Spec == Init /\ [][Next]_vars

\* --------------------------------------------------- facade specification

\* One CASPaxosKV (its proposer is ProposerA) whose client awaits each operation
\* before it starts the next; replicas become unreachable between operations.
KVKeys == AllKeys

\* The calls the client makes: get, set(k, 1), compareAndSet(k, null, 2) and
\* compareAndSet(k, 1, 2) on KeyK, set(k, 1) on KeyLK.
KVCalls ==
    ({KeyK} \X {FnGet, FnSet(1), FnCas(NullV, 2), FnCas(1, 2)}) \cup {<<KeyLK, FnSet(1)>>}

\* The transforms the client gives to update(KeyK, fn).
KVUpdateFns == {FnInc, FnThrow}

Running(o) == ops[o].st \in {"running", "backoff"}

Quiet == \A o \in 1..MaxOps : ~Running(o)

\* tryWhile's fn(attempt) for operation o: proposer.change up to its first await.
KVAttempt(o, op) ==
    /\ Invoke(ProposerA, op.k, op.fn, o)
    /\ ops' = [ops EXCEPT ![o] = IF ev'.type = "reject"
                                 THEN OpThrew(op, ev'.code)
                                 ELSE [op EXCEPT !.st = "running"]]
    /\ UNCHANGED <<storage, stray, down, rev, seen, committed, nChanges, sideVars>>

\* tryWhile up to the first await of its first attempt.
KVBegin(o, k, kind, fn) ==
    /\ ops[o].st = "new"
    /\ \A o2 \in 1..MaxOps : o2 < o => ops[o2].st # "new"
    /\ Quiet
    /\ KVAttempt(o, [NewOp EXCEPT !.k = k, !.kind = kind, !.fn = fn,
                                  !.nDown = Cardinality(down)])

\* The client calls get, set or compareAndSet.
KVCall(o, k, fn) ==
    /\ fn.op \in {"get", "set", "cas"}
    /\ KVBegin(o, k, fn.op, fn)

\* An operation whose body is `throw new Error("Method not implemented.")`: the
\* promise it returns rejects; it reaches neither tryWhile nor the proposer.
KVNotImplemented(o, k, kind, fn) ==
    /\ ops[o].st = "new"
    /\ \A o2 \in 1..MaxOps : o2 < o => ops[o2].st # "new"
    /\ Quiet
    /\ ops' = [ops EXCEPT ![o] = [NewOp EXCEPT !.st = "failed", !.k = k, !.kind = kind,
                                               !.fn = fn, !.err = "Error",
                                               !.nDown = Cardinality(down)]]
    /\ ev' = [NoEv EXCEPT !.type = "notImplemented", !.k = k, !.code = "Error"]
    /\ UNCHANGED <<storage, ballot, cache, locks, call, msgs, stray, down, rev,
                   issued, seen, committed, nChanges, sideVars>>

\* The client calls update(k, fn).
KVUpdate(o, k, fn) ==
    /\ fn \in KVUpdateFns
    /\ KVNotImplemented(o, k, "update", fn)

\* The client calls delete(k).
KVDelete(o, k) ==
    /\ k \in KVKeys
    /\ KVNotImplemented(o, k, "delete", NoFn)

\* tryWhile's next turn of the loop, after the backoff delay.
KVRetry(o) ==
    /\ ops[o].st = "backoff"
    /\ KVAttempt(o, ops[o])

\* Replica n becomes unreachable, while an operation is still to come.  Replicas
\* are interchangeable, so they fail in the order of their numbers.
Crash(n) ==
    /\ n \notin down
    /\ Cardinality(down) < MaxDown
    /\ \A n2 \in Nodes : n2 < n => n2 \in down
    /\ Quiet
    /\ \E o \in 1..MaxOps : ops[o].st = "new"
    /\ down' = down \cup {n}
    /\ ev' = NoEv
    /\ UNCHANGED <<storage, ballot, cache, locks, call, msgs, stray, ops, rev,
                   issued, seen, committed, nChanges, sideVars>>

\* A request still on the wire to a replica that became unreachable fails.
DropStray(m) == m.n \in down /\ LoseStray(m)

InitKV == InitWith("utils", {{}}) /\ SideIdle

NextKV ==
    \/ \E o \in 1..MaxOps, c \in KVCalls : KVCall(o, c[1], c[2])
    \/ \E o \in 1..MaxOps, fn \in KVUpdateFns : KVUpdate(o, KeyK, fn)
    \/ \E o \in 1..MaxOps : KVDelete(o, KeyK)
    \/ \E o \in 1..MaxOps : KVRetry(o)
    \/ \E n \in Nodes : Crash(n)
    \/ \E k \in KVKeys, n \in Nodes : Rpc(ProposerA, k, n)
    \/ \E k \in KVKeys, n \in Nodes : RpcDown(ProposerA, k, n)
    \/ \E m \in stray : ProcessStray(m)
    \/ \E m \in stray : DropStray(m)

SpecKV == InitKV /\ [][NextKV]_vars

\* ------------------------------------------------------------------ claims

ProposerErrorCodes ==
    {"ConcurrentRequestError", "PrepareError", "CommitError", "UpdateError"}

\* C1: a change that returns applied its transform to a value at least as recent
\* as the result of every change on the key that had returned before it started
\* (ev.floor is the highest g returned on the key when the call started, ev.g the
\* g of the value the transform was applied to).
C1_Linearizable == ev.type = "return" => ev.g >= ev.floor

\* C2: a change called on a proposer while a change for the same key is in flight
\* on it is rejected with ConcurrentRequestError in the same step, which changes
\* nothing of the replicas, of the proposer or of the call in flight and sends
\* nothing; a change is only ever started for a key with no call in flight.
C2_SecondCallRejected ==
    [][/\ ev'.type = "reject" =>
            /\ call[ev'.p][ev'.k].pc # "idle"
            /\ ev'.code = "ConcurrentRequestError"
            /\ ~ev'.sent
            /\ UNCHANGED <<storage, ballot, cache, locks, call, msgs, stray, issued>>
       /\ ev'.type = "start" => call[ev'.p][ev'.k].pc = "idle"]_vars

C2_Witness ==
    /\ ev.type = "reject"
    /\ call[ev.p][ev.k].pc = "accept"
    /\ \E n \in Nodes : msgs[ev.p][ev.k][n].st = "req"

\* C3: a proposer's local counter never decreases, and a change never starts a
\* round under a ballot the proposer already started a round under.
C3_BallotsNeverReused ==
    [][/\ \A p \in AllProposers : ballot'[p] >= ballot[p]
       /\ ev'.type = "start" => ~ev'.reused]_vars

C10_OnlyProposerErrors ==
    /\ ev.type \in {"throw", "reject"} => ev.code \in ProposerErrorCodes
    /\ ev.type = "throw" /\ ev.nOk < Quorum =>
            ev.code = (IF ev.phase = "prepare" THEN "PrepareError" ELSE "CommitError")

C10_Witness == ev.type = "throw" /\ ev.phase = "accept" /\ ev.nOk < Quorum

OpIds == 1..MaxOps

Tolerated == TotalNodes - Quorum

\* The value the facade's client holds key k to have before operation o: what the
\* latest earlier operation on k returned, null when there is none.
RECURSIVE CurrentBefore(_, _)
CurrentBefore(o, k) ==
    IF o = 1 THEN NullV
    ELSE IF ops[o - 1].k = k THEN ops[o - 1].res
    ELSE CurrentBefore(o - 1, k)

\* Every earlier operation on k returned.
SettledBefore(o, k) ==
    \A o2 \in OpIds : o2 < o /\ ops[o2].k = k => ops[o2].st = "done"

ProposerOps == {"get", "set", "cas"}

\* C4: an operation (get, set, compareAndSet, update or delete) started with at
\* most totalNodes - quorum replicas unreachable does not fail.
C4_SucceedsWithMinorityDown ==
    \A o \in OpIds : ops[o].nDown <= Tolerated => ops[o].st # "failed"

\* The same of get, set and compareAndSet alone.
C4_ProposerOpsSucceed ==
    \A o \in OpIds :
        ops[o].nDown <= Tolerated /\ ops[o].kind \in ProposerOps => ops[o].st # "failed"

\* C5: an operation (get, set, compareAndSet, update or delete) started with
\* more than totalNodes - quorum replicas unreachable never returns, makes at
\* most MaxAttempt attempts, and when it has failed it has made MaxAttempt
\* attempts and carries PrepareError or CommitError.
C5_FailsWithMajorityDown ==
    \A o \in OpIds :
        ops[o].nDown > Tolerated =>
            /\ ops[o].st # "done"
            /\ ops[o].attempt <= MaxAttempt + 1
            /\ Running(o) => ops[o].attempt <= MaxAttempt
            /\ ops[o].st = "failed" =>
                    /\ ops[o].err \in {"PrepareError", "CommitError"}
                    /\ ops[o].attempt = MaxAttempt + 1

\* The same of get, set and compareAndSet alone.
C5_ProposerOpsFail ==
    \A o \in OpIds :
        ops[o].nDown > Tolerated /\ ops[o].kind \in ProposerOps =>
            /\ ops[o].st # "done"
            /\ ops[o].attempt <= MaxAttempt + 1
            /\ Running(o) => ops[o].attempt <= MaxAttempt
            /\ ops[o].st = "failed" =>
                    /\ ops[o].err \in {"PrepareError", "CommitError"}
                    /\ ops[o].attempt = MaxAttempt + 1

\* C6: a compareAndSet(k, expected, next) that returns, every earlier operation
\* on k having returned, returns next when the value of k equals expected and
\* the value of k otherwise; a get(k) that directly follows it returns the same.
C6_CompareAndSet ==
    \A o \in OpIds :
        ops[o].st = "done" /\ ops[o].kind = "cas" /\ SettledBefore(o, ops[o].k) =>
            /\ ops[o].res = (IF CurrentBefore(o, ops[o].k) = ops[o].fn.a
                             THEN ops[o].fn.b
                             ELSE CurrentBefore(o, ops[o].k))
            /\ \A o2 \in OpIds :
                    /\ o2 = o + 1
                    /\ ops[o2].st = "done"
                    /\ ops[o2].kind = "get"
                    /\ ops[o2].k = ops[o].k
                    => ops[o2].res = ops[o].res

\* C7: a set(k, v) that returns returns v, and a get(k) that directly follows
\* it on the facade and returns, returns v.
C7_ReadYourWrite ==
    \A o \in OpIds :
        ops[o].st = "done" /\ ops[o].kind = "set" =>
            /\ ops[o].res = ops[o].fn.a
            /\ \A o2 \in OpIds :
                    /\ o2 = o + 1
                    /\ ops[o2].st = "done"
                    /\ ops[o2].kind = "get"
                    /\ ops[o2].k = ops[o].k
                    => ops[o2].res = ops[o].fn.a

C7_Witness ==
    \E o \in OpIds, o2 \in OpIds :
        /\ o2 = o + 1
        /\ ops[o].st = "done" /\ ops[o].fn = FnSet(1) /\ ops[o].k = KeyK
        /\ ops[o2].st = "done" /\ ops[o2].fn = FnGet /\ ops[o2].k = KeyK
        /\ ops[o2].res = 1

RetryableCodes == {"ConcurrentRequestError", "PrepareError", "CommitError"}

\* C9: an operation makes a further attempt only after change threw
\* ConcurrentRequestError, PrepareError or CommitError; an operation whose change
\* threw anything else has failed with it; and the facade's retry predicate
\* answers false for UpdateError and for an error that is no ProposerError,
\* whatever the number of the next attempt.
C9_RetriesOnlyRetryable ==
    /\ \A o \in OpIds :
            /\ ops[o].st = "backoff" => ops[o].err \in RetryableCodes
            /\ ops[o].st = "running" /\ ops[o].attempt > 1 =>
                    ops[o].err \in RetryableCodes
            /\ ops[o].err \notin RetryableCodes \cup {""} => ops[o].st = "failed"
    /\ \A a \in 1..(MaxAttempt + 1), code \in ProposerErrorCodes \cup {"Error"} :
            FacadeIsRetryable(code, a) => code \in RetryableCodes

C9_Witness ==
    \E o \in OpIds :
        /\ ops[o].st = "running"
        /\ ops[o].attempt = 2
        /\ ops[o].err = "PrepareError"

\* No earlier operation of the facade named key k in a set or a compareAndSet.
NeverWritten(o, k) ==
    \A o2 \in OpIds : o2 < o /\ ops[o2].k = k => ops[o2].kind = "get"

\* C14: a get(k) that returns, no operation having written k, returns null.
C14_GetNeverWritten ==
    \A o \in OpIds :
        ops[o].st = "done" /\ ops[o].kind = "get" /\ NeverWritten(o, ops[o].k) =>
            ops[o].res = NullV

\* C15: with every replica reachable, update(k, fn) with a transform that does
\* not throw does not fail, and when it returns, every earlier operation on k
\* having returned, it returns fn applied to the value of k.
C15_UpdateReturns ==
    \A o \in OpIds :
        ops[o].kind = "update" /\ ops[o].fn = FnInc /\ ops[o].nDown = 0 =>
            /\ ops[o].st # "failed"
            /\ ops[o].st = "done" /\ SettledBefore(o, ops[o].k) =>
                    ops[o].res = ApplyUpdate(FnInc, CurrentBefore(o, ops[o].k)).v

\* C16: with every replica reachable, delete(k) does not fail, and a get(k) that
\* directly follows it on the facade and returns, returns null.
C16_DeleteThenGet ==
    \A o \in OpIds :
        ops[o].kind = "delete" /\ ops[o].nDown = 0 =>
            /\ ops[o].st # "failed"
            /\ \A o2 \in OpIds :
                    /\ o2 = o + 1
                    /\ ops[o2].st = "done"
                    /\ ops[o2].kind = "get"
                    /\ ops[o2].k = ops[o].k
                    => ops[o2].res = NullV

\* ------------------------------------------------- CASPaxosKV construction

MaxWeight == 4

RECURSIVE SumWeights(_, _)
\* Object.values(locations).reduce((acc, x) => acc + x, 0)
SumWeights(locations, n) ==
    IF n = 0 THEN 0 ELSE SumWeights(locations, n - 1) + locations[n]

RECURSIVE MakeNodeList(_, _)
\* The entries sorted by location, each mapped to `weight` nodes carrying the
\* next nodeId (idx++), flattened: the nodes of the first n locations.
MakeNodeList(locations, n) ==
    IF n = 0 THEN <<>>
    ELSE LET before == MakeNodeList(locations, n - 1)
         IN  before \o [i \in 1..locations[n] |->
                            [location |-> Locations[n], nodeId |-> Len(before) + i - 1]]

\* #makeNodes: the node list and the quorum shared by both node groups.
MakeNodes(locations) ==
    LET totalNodes == SumWeights(locations, Len(Locations))
    IN  [totalNodes |-> totalNodes,
         quorum |-> (totalNodes \div 2) + 1,
         nodes |-> MakeNodeList(locations, Len(Locations))]

\* The constructor: it stores its arguments, builds the nodes and the proposer,
\* and has no statement that throws.
Constructor(locations) ==
    LET made == MakeNodes(locations)
    IN  [st |-> "constructed", totalNodes |-> made.totalNodes, quorum |-> made.quorum,
         nodes |-> made.nodes, message |-> ""]

\* new CASPaxosKV(ns, {clusterName, topology})
Construct ==
    /\ kv.st = "none"
    /\ kv' = Constructor(topology)
    /\ UNCHANGED <<protoVars, topology, ballotVars, retryVars, replicaVars, waitVars>>

InitCtor ==
    /\ InitWith("utils", {{}})
    /\ topology \in [1..Len(Locations) -> 0..MaxWeight]
    /\ kv = NoKV
    /\ BallotIdle
    /\ RetryIdle
    /\ ReplicaIdle
    /\ WaitIdle

NextCtor == Construct

SpecCtor == InitCtor /\ [][NextCtor]_vars

MsgOdd == "Total number of nodes must be odd to ensure a majority quorum like 3,5,7."

MsgAtLeast3 == "Total number of nodes must be at least 3 to ensure a majority quorum."

\* C11: constructing the facade succeeds exactly when the total weight is odd
\* and at least 3; otherwise it throws with the message of the violated rule.
C11_ConstructorValidates ==
    LET total == SumWeights(topology, Len(Locations))
    IN  kv.st # "none" =>
            /\ kv.st = "constructed" <=> (total % 2 = 1 /\ total >= 3)
            /\ kv.st = "threw" => kv.message \in {MsgOdd, MsgAtLeast3}

\* ------------------------------------------------------- BallotNumber text

MaxTextCounter == 12

MaxIdLen == 2

IdChars == {"a", "1", ","}

\* The strings over IdChars of length at most n.
IdsUpTo(n) == UNION {[1..l -> IdChars] : l \in 0..n}

RECURSIVE ToDecimal(_)
\* `${counter}` of a non-negative integer.
ToDecimal(n) ==
    IF n < 10 THEN <<Digits[n + 1]>>
    ELSE ToDecimal(n \div 10) \o <<Digits[(n % 10) + 1]>>

\* stringify: `${bn.counter},${bn.id}`
Stringify(bn) == ToDecimal(bn.counter) \o <<",">> \o bn.id

\* The index of the first "," of s, 0 when it has none.
IndexOfComma(s) ==
    IF \E i \in 1..Len(s) : s[i] = ","
    THEN CHOOSE i \in 1..Len(s) : s[i] = "," /\ \A j \in 1..(i - 1) : s[j] # ","
    ELSE 0

\* txt.split(",", 2): the pieces between the commas, the first two of them.
Split2(s) ==
    LET i == IndexOfComma(s)
    IN  IF i = 0 THEN <<s>>
        ELSE LET rest == SubSeq(s, i + 1, Len(s))
                 j == IndexOfComma(rest)
             IN  <<SubSeq(s, 1, i - 1),
                   IF j = 0 THEN rest ELSE SubSeq(rest, 1, j - 1)>>

NaN == -1

RECURSIVE ParseDigits(_, _)
\* The value of the longest prefix of digits of s, after the value acc.
ParseDigits(s, acc) ==
    IF s = <<>> \/ ~IsDigit(Head(s)) THEN acc
    ELSE ParseDigits(Tail(s), acc * 10 + DigitValue(Head(s)))

\* parseInt on a string without white space or sign.
ParseInt(s) ==
    IF s = <<>> \/ ~IsDigit(Head(s)) THEN NaN ELSE ParseDigits(s, 0)

UndefinedId == <<"undefined">>

\* parse: const [counter, id] = txt.split(",", 2); {counter: parseInt(counter), id}
Parse(s) ==
    LET parts == Split2(s)
    IN  [counter |-> ParseInt(parts[1]),
         id |-> IF Len(parts) >= 2 THEN parts[2] ELSE UndefinedId]

\* txt = stringify(bnA)
DoStringify ==
    /\ txt = NoText
    /\ txt' = Stringify(bnA)
    /\ UNCHANGED <<protoVars, ctorVars, retryVars, replicaVars, waitVars, bnA, bnB, bnC, cmp, parsed>>

\* parsed = parse(txt)
DoParse ==
    /\ txt # NoText
    /\ parsed = NoBallot
    /\ parsed' = Parse(txt)
    /\ UNCHANGED <<protoVars, ctorVars, retryVars, replicaVars, waitVars, bnA, bnB, bnC, cmp, txt>>

InitText ==
    /\ InitWith("utils", {{}})
    /\ CtorIdle
    /\ RetryIdle
    /\ ReplicaIdle
    /\ WaitIdle
    /\ bnA \in [counter : 0..MaxTextCounter, id : IdsUpTo(MaxIdLen)]
    /\ bnB = BallotZero
    /\ bnC = BallotZero
    /\ cmp = NoCmp
    /\ txt = NoText
    /\ parsed = NoBallot

NextText == DoStringify \/ DoParse

SpecText == InitText /\ [][NextText]_vars

\* C12: parse(stringify(b)) compares equal to b, whatever the counter and the
\* id of b.
C12_TextRoundTrip ==
    parsed # NoBallot => CompareTo(parsed, bnA) = 0 /\ CompareTo(bnA, parsed) = 0

\* The same of the ballots whose id holds no ",".
C12_RoundTripWithoutComma ==
    parsed # NoBallot /\ IndexOfComma(bnA.id) = 0 => parsed = bnA

\* ------------------------------------------------- BallotNumber comparison

MaxCmpCounter == 2

MaxCmpIdLen == 2

CmpIdChars == {"a", "b"}

CmpIds == UNION {[1..l -> CmpIdChars] : l \in 0..MaxCmpIdLen}

CmpBallots == [counter : 0..MaxCmpCounter, id : CmpIds]

\* The caller compares the three ballots with one another.
DoCompare ==
    /\ cmp = NoCmp
    /\ cmp' = [ab |-> CompareTo(bnA, bnB), ba |-> CompareTo(bnB, bnA),
               bc |-> CompareTo(bnB, bnC), ac |-> CompareTo(bnA, bnC),
               aa |-> CompareTo(bnA, bnA)]
    /\ UNCHANGED <<protoVars, ctorVars, retryVars, replicaVars, waitVars, bnA, bnB, bnC, txt, parsed>>

InitCompare ==
    /\ InitWith("utils", {{}})
    /\ CtorIdle
    /\ RetryIdle
    /\ ReplicaIdle
    /\ WaitIdle
    /\ bnA \in CmpBallots
    /\ bnB \in CmpBallots
    /\ bnC \in CmpBallots
    /\ cmp = NoCmp
    /\ txt = NoText
    /\ parsed = NoBallot

NextCompare == DoCompare

SpecCompare == InitCompare /\ [][NextCompare]_vars

\* s precedes t lexicographically: at the first position where they differ s
\* has the smaller character, or s is a proper prefix of t.
LexBefore(s, t) ==
    \E i \in 1..Len(t) :
        /\ i <= Len(s) + 1
        /\ \A j \in 1..(i - 1) : s[j] = t[j]
        /\ IF i > Len(s) THEN TRUE ELSE CharCode(s[i]) < CharCode(t[i])

\* C13: compareTo answers -1, 0 or 1; it orders by counter first and then
\* lexicographically by id; it is reflexive, antisymmetric and transitive; and
\* it answers 0 exactly when counter and id are both equal.
C13_TotalOrder ==
    cmp # NoCmp =>
        /\ cmp.ab \in {-1, 0, 1}
        /\ bnA.counter < bnB.counter => cmp.ab = -1
        /\ bnA.counter > bnB.counter => cmp.ab = 1
        /\ bnA.counter = bnB.counter /\ LexBefore(bnA.id, bnB.id) => cmp.ab = -1
        /\ bnA.counter = bnB.counter /\ LexBefore(bnB.id, bnA.id) => cmp.ab = 1
        /\ cmp.aa = 0
        /\ cmp.ba = -cmp.ab
        /\ cmp.ab <= 0 /\ cmp.bc <= 0 => cmp.ac <= 0
        /\ cmp.ab = 0 /\ cmp.bc = 0 => cmp.ac = 0
        /\ cmp.ab = 0 <=> (bnA.counter = bnB.counter /\ bnA.id = bnB.id)

C13_Witness ==
    /\ cmp # NoCmp
    /\ bnA.counter = bnB.counter
    /\ bnB.counter < bnC.counter
    /\ bnA.id = <<"a">>
    /\ bnB.id = <<"a", "b">>
    /\ bnC.id = <<>>
    /\ cmp.ab = -1
    /\ cmp.bc = -1
    /\ cmp.ac = -1

\* -------------------------------------------------------------------- tryN

MaxN == 5

\* The values of n: the halves from -1/2 to MaxN, held doubled.
TryNValues == (-1)..(2 * MaxN)

\* Math.floor(n)
Floor2(n2) == n2 \div 2

\* The caller's isRetryable: (err) => err.message === "retry"
UserIsRetryable(err, nextAttempt) == err = "retry"

TryNKeepsGoingOneShort(impl, n, err, nextAttempt) ==
    nextAttempt < n /\ UserIsRetryable(err, nextAttempt)

\* Whether the loop goes on after fn threw err, nextAttempt being the number of
\* the attempt that would follow. "tryWhile": the predicate tryN hands to
\* tryWhile; "loop": the revision with its own loop, which throws when
\* !isRetryable(err, attempt) || attempt > n.
TryNKeepsGoing(impl, n, err, nextAttempt) ==
    IF impl = "tryWhile"
    THEN nextAttempt <= n /\ UserIsRetryable(err, nextAttempt)
    ELSE ~(~UserIsRetryable(err, nextAttempt) \/ nextAttempt > n)

\* tryN(n, fn, isRetryable) up to the first call of fn: the check of n.
TryNEnter ==
    /\ tn.st = "called"
    /\ tn' = IF tn.n2 <= 0
              THEN [tn EXCEPT !.st = "threw", !.err = "n must be greater than 0"]
              ELSE [tn EXCEPT !.st = "running", !.attempt = 1]
    /\ UNCHANGED <<protoVars, ctorVars, ballotVars, replicaVars, waitVars>>

\* fn(attempt) resolves: the loop returns its result.
FnResolves ==
    /\ tn.st = "running"
    /\ tn' = [tn EXCEPT !.st = "returned", !.res = "ok",
                        !.calls = Append(@, tn.attempt),
                        !.outcomes = Append(@, "ok")]
    /\ UNCHANGED <<protoVars, ctorVars, ballotVars, replicaVars, waitVars>>

\* fn(attempt) rejects with err: the catch block, up to the throw or the delay.
FnRejects(err) ==
    /\ tn.st = "running"
    /\ LET nextAttempt == tn.attempt + 1
           goesOn == TryNKeepsGoing(tn.impl, Floor2(tn.n2), err, nextAttempt)
       IN  tn' = [tn EXCEPT !.st = IF goesOn THEN "delay" ELSE "threw",
                            !.attempt = nextAttempt,
                            !.err = err,
                            !.calls = Append(@, tn.attempt),
                            !.outcomes = Append(@, err)]
    /\ UNCHANGED <<protoVars, ctorVars, ballotVars, replicaVars, waitVars>>

\* The backoff delay elapses.
DelayElapses ==
    /\ tn.st = "delay"
    /\ tn' = [tn EXCEPT !.st = "running"]
    /\ UNCHANGED <<protoVars, ctorVars, ballotVars, replicaVars, waitVars>>

InitTryN ==
    /\ InitWith("utils", {{}})
    /\ CtorIdle
    /\ BallotIdle
    /\ ReplicaIdle
    /\ WaitIdle
    /\ \E impl \in {"tryWhile", "loop"}, n2 \in TryNValues :
            tn = [NoTryN EXCEPT !.st = "called", !.impl = impl, !.n2 = n2]

NextTryN ==
    \/ TryNEnter
    \/ FnResolves
    \/ \E err \in {"retry", "fatal"} : FnRejects(err)
    \/ DelayElapses

SpecTryN == InitTryN /\ [][NextTryN]_vars

\* C17: for a whole number n of attempts, tryN calls fn with the attempt
\* numbers 1, 2, ..., at most n times; a call that resolves is the last one and
\* its result is returned; a call that rejects with an error isRetryable
\* refuses is the last one and its error is thrown; and when every call has
\* rejected with a retryable error tryN throws exactly after the n-th call,
\* with the error of that call.
C17_TryN ==
    LET n == Floor2(tn.n2)
        made == Len(tn.calls)
    IN  tn.n2 = 2 * n =>
            /\ tn.calls = [i \in 1..made |-> i]
            /\ made <= (IF n > 0 THEN n ELSE 0)
            /\ \A i \in 1..made :
                    tn.outcomes[i] = "ok" => i = made /\ tn.st = "returned" /\ tn.res = "ok"
            /\ \A i \in 1..made :
                    tn.outcomes[i] = "fatal" => i = made /\ tn.st = "threw" /\ tn.err = "fatal"
            /\ tn.st = "returned" => made >= 1 /\ tn.outcomes[made] = "ok"
            /\ made >= 1 /\ (\A i \in 1..made : tn.outcomes[i] = "retry") =>
                    /\ tn.st = "threw" <=> made = n
                    /\ tn.st \in {"threw", "delay", "running"}
                    /\ tn.st = "threw" => tn.err = "retry"

C17_Witness ==
    /\ tn.st = "threw"
    /\ tn.n2 = 2 * MaxN
    /\ tn.impl = "tryWhile"
    /\ tn.calls = [i \in 1..MaxN |-> i]
    /\ \A i \in 1..MaxN : tn.outcomes[i] = "retry"

\* ------------------------------------------------------------ one replica

MaxReqs == 3

MaxReqCounter == 2

\* The replica the requests are made to.
Replica == 1

ReqBallots == [counter : 1..MaxReqCounter, id : AllProposers]

ReqValues == {Val(1, 0), Val(2, 0)}

\* What the granted requests of a key have established, after one more
\* response: a granted prepare promises its ballot; a granted accept accepts its
\* ballot and value and promises nextBallot.
Established(before, req, resp) ==
    IF ~resp.isOk THEN before
    ELSE IF req.kind = "prepare"
    THEN [before EXCEPT !.promisedBallot = req.ballot]
    ELSE [promisedBallot |-> req.promise, acceptedBallot |-> req.ballot,
          acceptedValue |-> req.value]

\* One request handled by the replica in its storage transaction.
ReplicaCall(req) ==
    /\ nReqs < MaxReqs
    /\ LET out == Handle(storage[Replica], req)
       IN  /\ storage' = [storage EXCEPT ![Replica] = out.store]
           /\ lastCall' = [req |-> req, resp |-> out.resp, before |-> granted[req.key]]
           /\ granted' = [granted EXCEPT ![req.key] = Established(@, req, out.resp)]
    /\ nReqs' = nReqs + 1
    /\ UNCHANGED <<ballot, cache, locks, call, msgs, stray, ops, down, rev, ev,
                   issued, seen, committed, nChanges, ctorVars, ballotVars, retryVars, waitVars>>

\* stub.prepare(key, proposedBallot)
ReplicaPrepare(key, proposedBallot) ==
    /\ key \in AllKeys
    /\ ReplicaCall(Req("prepare", key, proposedBallot, NullVal, BallotZero))

\* stub.accept(key, preparedBallot, preparedValue, nextBallot)
ReplicaAccept(key, preparedBallot, preparedValue, nextBallot) ==
    /\ key \in AllKeys
    /\ ReplicaCall(Req("accept", key, preparedBallot, preparedValue, nextBallot))

InitReplica == InitWith("utils", {{}}) /\ SideIdle

NextReplica ==
    \/ \E k \in AllKeys, b \in ReqBallots : ReplicaPrepare(k, b)
    \/ \E k \in AllKeys, b \in ReqBallots, v \in ReqValues :
            ReplicaAccept(k, b, v, BallotNext(b))

SpecReplica == InitReplica /\ [][NextReplica]_vars

Rejected(resp, reported) ==
    ~resp.isOk /\ resp.isConflict /\ resp.ballot = reported

\* C18: a prepare whose ballot is at most the ballot the replica has promised
\* for the key is rejected with conflict and reports that promised ballot.
C18_PrepareRejectsAtOrBelowPromise ==
    lastCall.req.kind = "prepare"
    /\ CompareTo(lastCall.req.ballot, lastCall.before.promisedBallot) <= 0
    => Rejected(lastCall.resp, lastCall.before.promisedBallot)

\* C19: a granted prepare stores its ballot as the key's promised ballot with
\* the accepted ballot and value the key had, and returns the ballot and value
\* of the key's latest granted accept (the zero ballot and null without one).
C19_GrantedPrepare ==
    lastCall.req.kind = "prepare" /\ lastCall.resp.isOk =>
        /\ lastCall.resp.ballot = lastCall.before.acceptedBallot
        /\ lastCall.resp.value = lastCall.before.acceptedValue
        /\ LET r == storage[Replica][PutKey(lastCall.req.key)]
           IN  /\ r.present
               /\ r.promisedBallot = lastCall.req.ballot
               /\ r.acceptedBallot = lastCall.before.acceptedBallot
               /\ r.value = lastCall.before.acceptedValue

\* C20: an accept whose ballot is below the key's promised ballot is rejected
\* with conflict reporting the promised ballot; otherwise one whose ballot is at
\* most the key's accepted ballot is rejected with conflict reporting the
\* accepted ballot; one whose ballot equals the promised ballot and exceeds the
\* accepted ballot is granted.
C20_AcceptRules ==
    LET b == lastCall.req.ballot
        st == lastCall.before
    IN  lastCall.req.kind = "accept" =>
            /\ CompareTo(b, st.promisedBallot) < 0 =>
                    Rejected(lastCall.resp, st.promisedBallot)
            /\ CompareTo(b, st.promisedBallot) >= 0
               /\ CompareTo(b, st.acceptedBallot) <= 0 =>
                    Rejected(lastCall.resp, st.acceptedBallot)
            /\ CompareTo(b, st.promisedBallot) = 0
               /\ CompareTo(b, st.acceptedBallot) > 0 => lastCall.resp.isOk

\* C21: a granted accept stores its ballot as the accepted ballot, its value as
\* the accepted value and nextBallot as the promised ballot, and returns the
\* accepted ballot the key had; once an accept was granted for a key, a prepare
\* at or below the ballot promised since, and an accept below it, are rejected.
C21_GrantedAccept ==
    LET req == lastCall.req
        st == lastCall.before
    IN  /\ req.kind = "accept" /\ lastCall.resp.isOk =>
                /\ lastCall.resp.ballot = st.acceptedBallot
                /\ LET r == storage[Replica][PutKey(req.key)]
                   IN  /\ r.present
                       /\ r.acceptedBallot = req.ballot
                       /\ r.value = req.value
                       /\ r.promisedBallot = req.promise
        /\ st.acceptedBallot # BallotZero =>
                /\ req.kind = "prepare"
                   /\ CompareTo(req.ballot, st.promisedBallot) <= 0 => ~lastCall.resp.isOk
                /\ req.kind = "accept"
                   /\ CompareTo(req.ballot, st.promisedBallot) < 0 => ~lastCall.resp.isOk

\* The part of C21 about what a granted accept stores.
C21_StoredByAccept ==
    lastCall.req.kind = "accept" /\ lastCall.resp.isOk =>
        LET r == storage[Replica][PutKey(lastCall.req.key)]
        IN  /\ r.present
            /\ r.acceptedBallot = lastCall.req.ballot
            /\ r.value = lastCall.req.value
            /\ r.promisedBallot = lastCall.req.promise

\* C22: on every replica, every stored record has its accepted ballot at most
\* its promised ballot.
C22_AcceptedAtMostPromised ==
    \A n \in Nodes, sk \in StorageKeys :
        storage[n][sk].present =>
            CompareTo(storage[n][sk].acceptedBallot, storage[n][sk].promisedBallot) <= 0

\* One replica holds the record of a granted accept while another holds the
\* record of a granted prepare.
C22_Witness ==
    \E n, n2 \in Nodes :
        /\ storage[n][KeyK].present
        /\ storage[n][KeyK].acceptedBallot # BallotZero
        /\ storage[n][KeyK].promisedBallot = BallotNext(storage[n][KeyK].acceptedBallot)
        /\ storage[n2][KeyK].present
        /\ storage[n2][KeyK].acceptedBallot = BallotZero

\* ------------------------------------------- two proposers over both keys

MaxCrossChanges == 2

MaxCrossInFlight == 2

CrossFns == {FnSet(1)}

\* A client calls proposer.change while other calls may be in flight.
CrossChange(p, k, fn) ==
    /\ nChanges < MaxCrossChanges
    /\ k \in locks[p] \/ Cardinality(InFlight) < MaxCrossInFlight
    /\ Invoke(p, k, fn, 0)
    /\ nChanges' = IF ev'.type = "start" THEN nChanges + 1 ELSE nChanges
    /\ UNCHANGED sideVars
    /\ UNCHANGED <<storage, stray, ops, down, rev, seen, committed>>

InitCross == InitWith("utils", {{}}) /\ SideIdle

\* Every call is delivered; a request left over by a settled wait is run later.
NextCross ==
    \/ \E p \in AllProposers, k \in AllKeys, fn \in CrossFns : CrossChange(p, k, fn)
    \/ \E p \in AllProposers, k \in AllKeys, n \in Nodes : Rpc(p, k, n)
    \/ \E m \in stray : ProcessStray(m)

SpecCross == InitCross /\ [][NextCross]_vars

\* C23: on every replica and for every key, the promised ballot and the
\* accepted ballot that prepare and accept load for the key never decrease.
C23_ReadBackNeverDecreases ==
    [][\A n \in Nodes, k \in AllKeys :
          LET before == LoadLocalState(storage[n], k)
              after == LoadLocalState(storage'[n], k)
          IN  /\ CompareTo(before.promisedBallot, after.promisedBallot) <= 0
              /\ CompareTo(before.acceptedBallot, after.acceptedBallot) <= 0]_vars

\* The same of the records as stored, key by storage key.
C23_StoredNeverDecreases ==
    [][\A n \in Nodes, sk \in StorageKeys :
          /\ CompareTo(storage[n][sk].promisedBallot, storage'[n][sk].promisedBallot) <= 0
          /\ CompareTo(storage[n][sk].acceptedBallot, storage'[n][sk].acceptedBallot) <= 0]_vars

\* C24: for every key, an accept round in flight carries the value every
\* replica holds under the round's ballot, and no two replicas hold different
\* values under the same accepted ballot.
C24_OneValuePerBallot ==
    \A k \in AllKeys :
        /\ \A p \in AllProposers, n \in Nodes :
                /\ call[p][k].pc = "accept"
                /\ storage[n][PutKey(k)].present
                /\ storage[n][PutKey(k)].acceptedBallot = call[p][k].ballot
                => storage[n][PutKey(k)].value.v = call[p][k].next.v
        /\ \A n1, n2 \in Nodes :
                /\ storage[n1][PutKey(k)].present
                /\ storage[n2][PutKey(k)].present
                /\ storage[n1][PutKey(k)].acceptedBallot # BallotZero
                /\ storage[n1][PutKey(k)].acceptedBallot = storage[n2][PutKey(k)].acceptedBallot
                => storage[n1][PutKey(k)].value.v = storage[n2][PutKey(k)].value.v

\* ------------------------------------------- one change at a time, reliable

MaxSeqChanges == 3

SeqFns == {FnSet(1)}

\* A client calls proposer.change directly once every earlier change has ended.
SeqChange(p, k, fn) ==
    /\ nChanges < MaxSeqChanges
    /\ InFlight = {}
    /\ Invoke(p, k, fn, 0)
    /\ nChanges' = IF ev'.type = "start" THEN nChanges + 1 ELSE nChanges
    /\ UNCHANGED sideVars
    /\ UNCHANGED <<storage, stray, ops, down, rev, seen, committed>>

InitSeq == InitWith("utils", {{}}) /\ SideIdle

NextSeq ==
    \/ \E p \in AllProposers, k \in AllKeys, fn \in SeqFns : SeqChange(p, k, fn)
    \/ \E p \in AllProposers, k \in AllKeys, n \in Nodes : Rpc(p, k, n)
    \/ \E m \in stray : ProcessStray(m)
    \/ \E m \in stray : LoseStray(m)

SpecSeq == InitSeq /\ [][NextSeq]_vars

\* C25: a change that starts from a cache entry which another proposer's
\* successful change on the key has outdated does not succeed on the cached
\* value: it ends, and it ends with CommitError.
C25_StaleCacheRejected ==
    (ev.type \in {"return", "throw"} /\ ev.stale) =>
        (ev.type = "throw" /\ ev.code = CommitErrorCode)

\* C26: when the accept round of change(key, .) fails to reach its quorum and
\* change throws CommitError, the proposer's cache holds no entry for the key
\* afterwards and the local counter is above the ballot of every conflict the
\* round had observed.
C26_CommitErrorDropsCache ==
    [][\A p \in AllProposers, k \in AllKeys :
          (/\ call[p][k].pc = "accept"
           /\ call'[p][k].pc = "idle"
           /\ ev' = [ev' EXCEPT !.type = "throw", !.code = CommitErrorCode,
                                !.p = p, !.k = k])
          => /\ ~cache'[p][k].has
             /\ \A i \in 1..Len(call[p][k].all) :
                    call[p][k].all[i].isConflict =>
                        ballot'[p] > call[p][k].all[i].ballot.counter]_vars

\* C27: when a response of the accept round of change(key, .) was a conflict,
\* the proposer's cache holds no entry for the key once that call has ended,
\* whether it returned or threw.
C27_ConflictDropsCache ==
    [][\A p \in AllProposers, k \in AllKeys :
          (/\ call[p][k].pc = "accept"
           /\ call'[p][k].pc = "idle"
           /\ AnyConflict(call[p][k].all))
          => ~cache'[p][k].has]_vars

\* C28: when change(key, .) returns after an accept round under ballot b, the
\* cache holds [b.next(), nextValue] for the key; and a change that starts while
\* the cache holds such an entry sends no prepare request: it sends to every
\* replica an accept request under the cached ballot whose value is the
\* transform applied to the cached value.
C28_OneRoundTrip ==
    [][\A p \in AllProposers, k \in AllKeys :
          /\ (/\ call[p][k].pc = "accept"
              /\ ev' = [ev' EXCEPT !.type = "return", !.p = p, !.k = k])
             => /\ cache'[p][k].has
                /\ ~cache'[p][k].alias
                /\ cache'[p][k].ballot = BallotNext(call[p][k].ballot)
                /\ cache'[p][k].value = call[p][k].next
                /\ ev'.val = call[p][k].next.v
          /\ (/\ call[p][k].pc = "idle"
              /\ call'[p][k].pc # "idle"
              /\ cache[p][k].has
              /\ ~cache[p][k].alias)
             => /\ \A n \in Nodes : msgs'[p][k][n] = ReqMsg
                /\ CallReq(call'[p][k], k).kind = "accept"
                /\ CallReq(call'[p][k], k).ballot = cache[p][k].ballot
                /\ CallReq(call'[p][k], k).value.v =
                       ApplyUpdate(call'[p][k].fn, cache[p][k].value.v).v
                /\ call'[p][k].curr = cache[p][k].value]_vars

\* A change has started from the entry an earlier successful change left: its
\* accept round is in flight under the reserved ballot.
C28_Witness ==
    \E p \in AllProposers, k \in AllKeys :
        /\ ev.type = "start" /\ ev.p = p /\ ev.k = k /\ ev.phase = "accept"
        /\ cache[p][k].has /\ ~cache[p][k].alias
        /\ call[p][k].pc = "accept"
        /\ call[p][k].ballot = cache[p][k].ballot
        /\ committed[k] > 0

\* C29: when the prepare round reaches its quorum, the value the proposer adopts
\* and caches for the key is the value of a prepared response whose accepted
\* ballot no prepared response of the quorum exceeds.
C29_AdoptsHighestAccepted ==
    ev.type = "proceed" =>
        LET c == call[ev.p][ev.k]
        IN  /\ Len(ev.oks) = Quorum
            /\ \E i \in 1..Len(ev.oks) :
                   /\ c.curr = ev.oks[i].value
                   /\ \A j \in 1..Len(ev.oks) :
                          CompareTo(ev.oks[j].ballot, ev.oks[i].ballot) <= 0
            /\ cache[ev.p][ev.k].has
            /\ cache[ev.p][ev.k].value = c.curr

\* A prepare round has reached its quorum with prepared responses that report
\* different accepted ballots, the later response reporting the higher one.
C29_Witness ==
    /\ ev.type = "proceed"
    /\ CompareTo(ev.oks[1].ballot, ev.oks[2].ballot) < 0
    /\ call[ev.p][ev.k].curr = ev.oks[2].value
    /\ ev.oks[1].value # ev.oks[2].value

\* C30: when the prepare round of change(key, .) fails to reach its quorum,
\* change throws PrepareError, the local counter is above the ballot of every
\* conflict among the responses waitFor had collected, no accept request has
\* been sent and the cache holds no entry for the key.
C30_PrepareFailure ==
    [][\A p \in AllProposers, k \in AllKeys :
          (call[p][k].pc = "prepare" /\ call'[p][k].pc = "idle")
          => /\ ev' = [ev' EXCEPT !.type = "throw", !.code = PrepareErrorCode,
                                  !.p = p, !.k = k, !.sent = FALSE]
             /\ \A i \in 1..Len(ev'.all) :
                    ev'.all[i].isConflict => ballot'[p] > ev'.all[i].ballot.counter
             /\ msgs'[p][k] = AllNone
             /\ \A m \in stray' \ stray : m.req.kind = "prepare"
             /\ ~cache'[p][k].has]_vars

\* A prepare round has failed on a conflict whose ballot was above the local
\* counter when the round was sent.
C30_Witness ==
    /\ ev.type = "throw"
    /\ ev.code = PrepareErrorCode
    /\ \E i \in 1..Len(ev.all) :
           /\ ev.all[i].isConflict
           /\ ev.all[i].ballot.counter > ev.ballot.counter
    /\ ~cache[ev.p][ev.k].has

\* ------------------------------ two proposers, each on its own key, reliable

MaxPairChanges == 3

PairFns == {FnSet(1)}

\* The key the clients of proposer p work on.
PairKey(p) == IF p = ProposerA THEN KeyK ELSE KeyLK

\* A client calls proposer.change directly for the proposer's key, once the
\* proposer's earlier change has ended; the other proposer's may be in flight.
PairChange(p, fn) ==
    /\ nChanges < MaxPairChanges
    /\ call[p][PairKey(p)].pc = "idle"
    /\ Invoke(p, PairKey(p), fn, 0)
    /\ nChanges' = IF ev'.type = "start" THEN nChanges + 1 ELSE nChanges
    /\ UNCHANGED sideVars
    /\ UNCHANGED <<storage, stray, ops, down, rev, seen, committed>>

InitPair == InitWith("utils", {{}}) /\ SideIdle

NextPair ==
    \/ \E p \in AllProposers, fn \in PairFns : PairChange(p, fn)
    \/ \E p \in AllProposers, n \in Nodes : Rpc(p, PairKey(p), n)
    \/ \E m \in stray : ProcessStray(m)

SpecPair == InitPair /\ [][NextPair]_vars

\* C31: every prepare or accept round a proposer sends goes out under a ballot
\* strictly greater than each conflict ballot its code had been handed before
\* (the conflicts of a failed prepare round and of an accept round).
C31_SendsAboveSeenConflicts ==
    (ev.type \in {"start", "proceed"} /\ ev.sent) =>
        CompareTo(seen[ev.p], ev.ballot) < 0

\* C32: every accept round a proposer sends for a key goes out under the ballot
\* of the prepare round that reached its quorum for that call or, when the call
\* starts from the cache, under the ballot the cache entry was set with.
C32_AcceptUnderOwnBallot ==
    /\ ev.type = "proceed" => ev.ballot = ev.prepared
    /\ (ev.type = "start" /\ ev.phase = "accept") =>
           ev.ballot = cache[ev.p][ev.k].at

\* C33: a proposer holds the lock of a key exactly while a change for that key
\* is in flight on it: the lock is free once change has returned or thrown
\* PrepareError, CommitError or UpdateError, and a call rejected with
\* ConcurrentRequestError leaves the lock with the call in flight.
C33_LockHeldWhileInFlight ==
    /\ \A p \in AllProposers, k \in AllKeys :
           k \in locks[p] <=> call[p][k].pc # "idle"
    /\ ev.type \in {"return", "throw"} =>
           /\ ev.k \notin locks[ev.p]
           /\ ev.type = "throw" =>
                  ev.code \in {PrepareErrorCode, CommitErrorCode, "UpdateError"}
    /\ ev.type = "reject" =>
           /\ ev.code = "ConcurrentRequestError"
           /\ ev.k \in locks[ev.p]
           /\ call[ev.p][ev.k].pc # "idle"

\* A second change on a key has started after the first one on it threw, on
\* the same proposer.
C33_Witness ==
    /\ ev.type = "start"
    /\ nChanges = 2
    /\ ev.k \in locks[ev.p]
    /\ \A p \in AllProposers : p # ev.p => ballot[p] = 0
    /\ committed[ev.k] = 0

\* ------------------------------------------------------------ waitFor alone

MaxWaitN == 4

\* What a promise handed to waitFor settles with: a value (cond(value) is isOk)
\* or a rejection.
Settlement(i, isOk, thrown) == [op |-> i, isOk |-> isOk, thrown |-> thrown]

\* A turn that does not look at isResolved.
WaitTurnUnguarded(i, thrown, value) ==
    LET w == WaitForStep(wf.result, wf.all, wf.failed, thrown, value, wf.n, wf.q)
        h == Append(wf.hist, IF thrown THEN Settlement(i, FALSE, TRUE) ELSE value)
    IN  /\ wf' = [wf EXCEPT !.pending = @ \ {i}, !.hist = h,
                            !.result = w.result, !.all = w.all,
                            !.failed = w.failed,
                            !.isResolved = @ \/ w.settled # "pending",
                            !.settled = IF wf.isResolved THEN @ ELSE w.settled,
                            !.at = IF wf.isResolved THEN @
                                   ELSE IF w.settled # "pending" THEN Len(h) ELSE 0]
        /\ UNCHANGED <<protoVars, ctorVars, ballotVars, retryVars, replicaVars>>

\* One turn of waitFor's per-promise async function, for promise i.  wf.result and
\* wf.all are the arrays the closure fills and hands to resolve and reject;
\* wf.hist (history) lists every settlement in order of arrival and wf.at
\* (history) is its length when waitFor's promise settled.
WaitTurn(i, thrown, value) ==
    LET w == WaitForStep(wf.result, wf.all, wf.failed, thrown, value, wf.n, wf.q)
        h == Append(wf.hist, IF thrown THEN Settlement(i, FALSE, TRUE) ELSE value)
    IN  /\ wf' = IF wf.isResolved
                 THEN [wf EXCEPT !.pending = @ \ {i}, !.hist = h]
                 ELSE [wf EXCEPT !.pending = @ \ {i}, !.hist = h,
                                 !.result = w.result, !.all = w.all,
                                 !.failed = w.failed,
                                 !.isResolved = w.settled # "pending",
                                 !.settled = w.settled,
                                 !.at = IF w.settled # "pending" THEN Len(h) ELSE 0]
        /\ UNCHANGED <<protoVars, ctorVars, ballotVars, retryVars, replicaVars>>

\* Promise i fulfils with a value.
PromiseFulfils(i, isOk) ==
    /\ i \in wf.pending
    /\ WaitTurn(i, FALSE, Settlement(i, isOk, FALSE))

\* Promise i rejects.
PromiseRejects(i) ==
    /\ i \in wf.pending
    /\ WaitTurn(i, TRUE, Settlement(i, FALSE, TRUE))

InitWait ==
    /\ InitWith("utils", {{}})
    /\ CtorIdle
    /\ BallotIdle
    /\ RetryIdle
    /\ ReplicaIdle
    /\ \E n \in 1..MaxWaitN, q \in 1..MaxWaitN :
           /\ q <= n
           /\ wf = [NoWait EXCEPT !.n = n, !.q = q, !.pending = 1..n]

NextWait ==
    \/ \E i \in 1..MaxWaitN, isOk \in BOOLEAN : PromiseFulfils(i, isOk)
    \/ \E i \in 1..MaxWaitN : PromiseRejects(i)

SpecWait == InitWait /\ [][NextWait]_vars

\* Every promise that can settle eventually does.
SpecWaitLive == SpecWait /\ WF_vars(NextWait)

\* The settlements that had arrived when waitFor's promise settled.
WaitPrefix == SubSeq(wf.hist, 1, wf.at)

IsResponse(x) == ~x.thrown

IsSuccess(x) == ~x.thrown /\ x.isOk

IsFailure(x) == x.thrown \/ ~x.isOk

\* C34: waitFor is still pending only while fewer than wantedCount responses
\* satisfying cond have arrived, so it resolves in the turn of the Q-th one,
\* whatever is still outstanding; when it has resolved, the success list is
\* the first Q such responses, in order of arrival, and nothing else.
C34_ResolvesAtQuorum ==
    /\ wf.settled = "pending" => Len(SelectSeq(wf.hist, IsSuccess)) < wf.q
    /\ wf.settled = "resolve" =>
           /\ Len(wf.result) = wf.q
           /\ \A j \in 1..Len(wf.result) : IsSuccess(wf.result[j])
           /\ wf.result = SelectSeq(WaitPrefix, IsSuccess)
           /\ IsSuccess(wf.hist[wf.at])
           /\ wf.all = SelectSeq(WaitPrefix, IsResponse)

\* waitFor has resolved while a promise was still outstanding.
C34_Witness ==
    /\ wf.settled = "resolve"
    /\ wf.pending # {}
    /\ wf.q >= 2
    /\ wf.failed >= 1

\* C35: waitFor is still pending only while wantedCount successes remain
\* possible (N - failures >= Q), so it rejects with InsufficientQuorumError in
\* the turn of the failure that makes N - failures < Q, whatever is still
\* outstanding, and not before; the error carries the responses that had
\* arrived by then.
C35_RejectsWhenQuorumLost ==
    /\ wf.settled = "pending" => wf.n - Len(SelectSeq(wf.hist, IsFailure)) >= wf.q
    /\ wf.settled = "reject" =>
           LET failures == Len(SelectSeq(WaitPrefix, IsFailure))
           IN  /\ IsFailure(wf.hist[wf.at])
               /\ wf.n - failures < wf.q
               /\ wf.n - (failures - 1) >= wf.q
               /\ wf.failed = failures
               /\ wf.all = SelectSeq(WaitPrefix, IsResponse)

\* waitFor has rejected while a promise was still outstanding, after a response
\* and a rejected promise.
C35_Witness ==
    /\ wf.settled = "reject"
    /\ wf.pending # {}
    /\ Len(wf.all) >= 1
    /\ Len(wf.all) < wf.at
    /\ Len(wf.result) >= 1

\* C36: waitFor's promise settles at most once: once it has resolved or
\* rejected, the settlements that arrive later change neither the outcome nor
\* the success list nor the list of observed responses handed to the caller.
C36_SettlesOnce ==
    [][/\ wf.isResolved =>
             /\ wf'.settled = wf.settled
             /\ wf'.result = wf.result
             /\ wf'.all = wf.all
             /\ wf'.isResolved
       /\ wf'.isResolved <=> wf'.settled # "pending"]_vars

\* After waitFor resolved, a response that satisfies cond and a response that
\* does not have both arrived.
C36_Witness ==
    /\ wf.settled = "resolve"
    /\ wf.at + 2 <= Len(wf.hist)
    /\ \E j \in (wf.at + 1)..Len(wf.hist) : IsSuccess(wf.hist[j])
    /\ \E j \in (wf.at + 1)..Len(wf.hist) : IsResponse(wf.hist[j]) /\ ~wf.hist[j].isOk

\* C37: for 1 <= Q <= N, when every promise handed to waitFor settles, waitFor's
\* promise settles too, resolved or rejected.
C37_EventuallySettles == <>(wf.settled # "pending")

\* waitFor settled in the turn of the last of its promises.
C37_Witness ==
    /\ wf.n >= 3
    /\ wf.pending = {}
    /\ wf.settled # "pending"
    /\ wf.at = wf.n

\* C38: a replica's state is scoped per key: a prepare or accept on key k leaves
\* what the replica reads back as the state of every other key as it was, and
\* is answered from the history of k alone (a request on a key for which the
\* replica has granted nothing yet is granted); and on a proposer a change for
\* one key is never rejected because a change for another key is in flight.
C38_ScopedPerKey ==
    [][/\ nReqs' = nReqs + 1 =>
             /\ \A k2 \in AllKeys \ {lastCall'.req.key} :
                    LoadLocalState(storage'[Replica], k2) =
                        LoadLocalState(storage[Replica], k2)
             /\ lastCall'.before = ZeroState => lastCall'.resp.isOk
       /\ ev'.type = "reject" => call[ev'.p][ev'.k].pc # "idle"]_vars

\* C39: when the transform threw, change ends according to its accept round:
\* when the round missed its quorum change throws CommitError, which
\* isRetryable and the facade's predicate accept for every further attempt up
\* to the third, so a retrying caller runs change and its transform again; only
\* when the round reached its quorum does change throw UpdateError, which is
\* not retried.
C39_CommitErrorBeforeUpdateError ==
    (ev.type \in {"return", "throw"} /\ ev.phase = "accept" /\ ev.threw) =>
        /\ ev.type = "throw"
        /\ IF ev.nOk < Quorum
           THEN /\ ev.code = CommitErrorCode
                /\ IsRetryable(ev.code)
                /\ \A a \in 2..MaxAttempt : FacadeIsRetryable(ev.code, a)
           ELSE /\ ev.code = "UpdateError"
                /\ ~IsRetryable(ev.code)

\* A change whose transform threw has ended with CommitError after one replica
\* accepted.
C39_Witness ==
    /\ ev.type = "throw"
    /\ ev.phase = "accept"
    /\ ev.threw
    /\ ev.code = CommitErrorCode
    /\ ev.nOk = 1

=============================================================================
